---- MODULE Spec2Model ----
(***************************************************************************)
(* A model of the three maintenance scripts of the repository:             *)
(*   tar_and_delete_dir.py  archive files older than a cutoff, then delete *)
(*   delete_checkpoints.py  keep only the newest checkpoint subdirectory   *)
(*   delete_wandb_dirs.py   delete every directory named "wandb"           *)
(* A path is a sequence of names; <<>> is the filesystem root of the model.*)
(***************************************************************************)
EXTENDS Integers, Sequences, FiniteSets, TLC

VARIABLES
    tool,          \* which script this behaviour runs
    argv,          \* the parsed command line (argparse namespace)
    pc,            \* position of the running script
    rc,            \* exit code of the process, -1 while it runs
    run,           \* number of the current invocation (re-runs use the same argv)
    fsops,         \* filesystem mutations performed by the current invocation
    \* ---- tar_and_delete_dir.py
    tree,          \* entries below the target directory: path -> [kind, mtime]
    tree0,         \* the tree as it was when collect_files scanned it
    scanned,       \* whether collect_files has walked the target
    files,         \* the manifest: list of paths built by collect_files
    idx,           \* loop index of archive_files / delete_files
    archived_count,\* the writer's count
    tmp,           \* the temporary archive created by mkstemp
    dest,          \* the file at the final archive path
    dest0,         \* the file at the final archive path when the invocation began
    deleted,       \* manifest paths unlinked by the current invocation
    firstManifest, \* the manifest of the first invocation
    stale_tmps,    \* temp archives left behind by killed invocations
    raised,        \* the step whose exception reached main's handler, or "none"
    envBudget,     \* how many more changes the environment may make
    \* ---- delete_checkpoints.py and delete_wandb_dirs.py
    dirs,          \* the real directories that exist (paths without symlinks)
    links,         \* the symlinks that exist (their targets are LinkTo)
    pfiles,        \* the regular files that exist
    dirs0,         \* the directories that existed when the script started
    links0,        \* the symlinks that existed when the script started
    dmtime,        \* st_mtime of the directories pruned by mtime
    stack,         \* os.walk: the directories still to be listed, last one first
    visited,       \* walk_dirs: the (st_dev, st_ino) keys seen so far
    cur,           \* the (dirpath, dirnames) the caller's loop body holds
    yielded,       \* every (dirpath, key) walk_dirs has yielded, in order
    count,         \* the pruning function's counter "deleted"
    removed,       \* the paths given to shutil.rmtree that were removed
    would,         \* the paths reported as "Would delete"
    report         \* what the preceding dry run reported: its paths and its count

archVars == <<tree, tree0, scanned, files, idx, archived_count, tmp, dest, dest0, deleted,
              firstManifest, stale_tmps, raised>>

pruneVars == <<dirs, links, pfiles, dirs0, links0, dmtime, report, stack, visited, cur, yielded, count, removed, would>>

vars == <<tool, argv, pc, rc, run, fsops, envBudget, archVars, pruneVars>>

\* ------------------------------------------------------------------ bounds
\* mtimes are seconds after 2025-12-01 00:00:00 local time, 1..MaxMtime
MaxMtime == 3
\* invocations of the archive tool in one behaviour
MaxRuns == 2
\* changes made by other processes while a script runs
MaxEnv == 1
\* subdirectories of one "checkpoints" directory
MaxSubdirs == 3
\* length of the longest path os.walk is allowed to build
MaxDepth == 6

\* ------------------------------------------------------------ path helpers
IsPrefix(a, b) == Len(a) <= Len(b) /\ SubSeq(b, 1, Len(a)) = a

Parent(p) == SubSeq(p, 1, Len(p) - 1)

\* The permutations of a finite set, as sequences (directory listing orders).
Perms(S) == {s \in [1..Cardinality(S) -> S] : \A i, j \in 1..Cardinality(S) : s[i] = s[j] => i = j}

RECURSIVE SeqToSet(_)
SeqToSet(s) == IF s = <<>> THEN {} ELSE {Head(s)} \cup SeqToSet(Tail(s))

\* ================================================= tar_and_delete_dir.py
\* The static skeleton around the target directory:
\*   /t        the target directory, /t/sub a real subdirectory
\*   /t/ld     a symlink to the directory /ext (outside the target)
\*   /tl       a symlink to /t      /tin  a symlink to /t/sub
\*   /out      an existing directory, /out/s.tar a symlink to /t/inner.tar
\*   /out/old.tar  a file that exists before the run, /out/x.tar does not
\*   /out/d    an existing directory (a destination that cannot be replaced)
ArchDirs == {<<>>, <<"t">>, <<"t", "sub">>, <<"out">>, <<"out", "d">>, <<"ext">>}

ArchLinks == {<<"tl">>, <<"tin">>, <<"t", "ld">>, <<"out", "s.tar">>}

LinkTarget(p) ==
    CASE p = <<"tl">> -> <<"t">>
      [] p = <<"tin">> -> <<"t", "sub">>
      [] p = <<"t", "ld">> -> <<"ext">>
      [] p = <<"out", "s.tar">> -> <<"t", "inner.tar">>
      [] OTHER -> p

\* Path.resolve(): replace every symlink met while walking the components.
RECURSIVE ResolveFrom(_, _)
ResolveFrom(done, rest) ==
    IF rest = <<>> THEN done
    ELSE LET next == Append(done, Head(rest))
         IN  ResolveFrom(IF next \in ArchLinks THEN LinkTarget(next) ELSE next, Tail(rest))

Resolve(p) == ResolveFrom(<<>>, p)

\* Path.is_dir() follows symlinks.
IsDir(p) == Resolve(p) \in ArchDirs

\* Path.relative_to(): the components after the base; the code's ValueError
\* (base is not a prefix) is the value <<"ValueError">>.
RelativeTo(p, base) ==
    IF IsPrefix(base, p) THEN SubSeq(p, Len(base) + 1, Len(p)) ELSE <<"ValueError">>

\* is_within without the two resolve() calls.
is_within_unresolved(child, parent) == IsPrefix(parent, child)

is_within(child, parent) == IsPrefix(Resolve(parent), Resolve(child))

\* The cutoff argument "YYYY-MM-DD HH:MM:SS" as its numeric fields.
CutoffArgs == {<<2025, 12, 1, 0, 0, 2>>, <<2025, 13, 1, 0, 0, 0>>, <<2025, 12, 1>>}

\* datetime.strptime accepts exactly six fields, each in its range.
StrptimeOk(ts) ==
    /\ Len(ts) = 6
    /\ ts[1] \in 1..9999
    /\ ts[2] \in 1..12
    /\ ts[3] \in 1..(IF ts[2] \in {4, 6, 9, 11} THEN 30
                     ELSE IF ts[2] = 2 THEN (IF ts[1] % 4 = 0 /\ (ts[1] % 100 # 0 \/ ts[1] % 400 = 0) THEN 29 ELSE 28)
                     ELSE 31)
    /\ ts[4] \in 0..23
    /\ ts[5] \in 0..59
    /\ ts[6] \in 0..59

\* dt.timestamp(), in seconds after 2025-12-01 00:00:00 (the model's epoch);
\* the cutoffs of the model all lie in December 2025.
parse_cutoff(ts) == (((ts[3] - 1) * 24 + ts[4]) * 60 + ts[5]) * 60 + ts[6]

\* The entries the model may place below the target (logical paths).
\* /t/ld/c is a regular file of /ext, reachable only through the symlink /t/ld.
EntryPaths == {<<"t", "a">>, <<"t", "l">>, <<"t", "sub", "b">>, <<"t", "ld", "c">>}

\* kinds: "none" no entry, "reg" regular file, "lnkfile" symlink to a regular
\* file, "lnkbad" dangling symlink
KindsAt(p) == IF p = <<"t", "l">> THEN {"none", "lnkfile", "lnkbad"} ELSE {"none", "reg"}

NoEntry == [kind |-> "none", mtime |-> 0]

\* A dangling symlink and the file behind /t/ld are never selected, whatever
\* their mtime: one mtime each is enough.
MtimesAt(p, k) == IF k = "lnkbad" \/ p = <<"t", "ld", "c">> THEN {1} ELSE 1..MaxMtime

Entries(p) == {NoEntry} \cup {[kind |-> km[1], mtime |-> km[2]] : km \in
                  {x \in (KindsAt(p) \ {"none"}) \X (1..MaxMtime) : x[2] \in MtimesAt(p, x[1])}}

\* Path.is_file() follows symlinks: true of a regular file and of a symlink
\* that points at one.
IsFile(e) == e.kind \in {"reg", "lnkfile"}

\* collect_files: the paths selected from one directory of the walk.
Selected(tr, dir, cutoff_epoch) ==
    {p \in EntryPaths : /\ Parent(p) = dir
                        /\ tr[p].kind # "none"            \* p.stat(follow_symlinks=False) succeeds
                        /\ IsFile(tr[p])
                        /\ tr[p].mtime <= cutoff_epoch}

\* collect_files without the comparison with the cutoff.
collect_files_nocutoff(tr, target_dir, cutoff_epoch) ==
    {top \o sub : top \in Perms(Selected(tr, target_dir, MaxMtime)),
                  sub \in Perms(Selected(tr, target_dir \o <<"sub">>, MaxMtime))}

\* collect_files: every order os.walk may produce (top-down; the order inside
\* a directory is the listing order, which is unspecified). os.walk does not
\* follow symlinks here: it lists the target and its real subdirectory sub, and
\* never the directory behind the symlink ld.
collect_files(tr, target_dir, cutoff_epoch) ==
    {top \o sub : top \in Perms(Selected(tr, target_dir, cutoff_epoch)),
                  sub \in Perms(Selected(tr, target_dir \o <<"sub">>, cutoff_epoch))}

\* The temp archive: whether it exists, its size (one unit per member, one for
\* the end-of-archive blocks), the members it holds, the directory it is in.
NoTmp == [exists |-> FALSE, size |-> 0, members |-> <<>>, dir |-> <<>>]
\* The file at the destination: "absent", "old" (a file that was there before),
\* "dir" (a directory) or "archive" (a tar file with the members listed).
NoDest == [state |-> "absent", members |-> <<>>]
OldDest == [state |-> "old", members |-> <<>>]
DirDest == [state |-> "dir", members |-> <<>>]

target_dir_abs == Resolve(argv.directory)
archive_parent == Parent(argv.archive_tar)
archive_path_abs == Append(Resolve(archive_parent), argv.archive_tar[Len(argv.archive_tar)])

TargetArgs == {<<"t">>, <<"tl">>, <<"nodir">>}
ArchiveArgs == {<<"out", "x.tar">>, <<"out", "old.tar">>, <<"out", "d">>, <<"t", "x.tar">>, <<"t">>, <<"nodir", "x.tar">>,
                <<"tin", "x.tar">>, <<"out", "s.tar">>}

NoCur == [path |-> <<>>, dirnames |-> <<>>]

\* No dry run has been made before this run.
NoReport == [would |-> {}, count |-> -1]

PruneIdle ==
    /\ report = NoReport
    /\ dirs = {}
    /\ links = {}
    /\ pfiles = {}
    /\ dirs0 = {}
    /\ links0 = {}
    /\ dmtime = <<>>
    /\ stack = <<>>
    /\ visited = {}
    /\ cur = NoCur
    /\ yielded = <<>>
    /\ count = 0
    /\ removed = {}
    /\ would = {}

InitArchive ==
    /\ tool = "archive"
    /\ PruneIdle
    /\ argv \in [directory : TargetArgs, cutoff_timestamp : CutoffArgs,
                 archive_tar : ArchiveArgs, dry_run : BOOLEAN, follow_symlinks : {FALSE}]
    /\ pc = "args"
    /\ rc = -1
    /\ run = 1
    /\ fsops = {}
    /\ tree \in {f \in [EntryPaths -> UNION {Entries(p) : p \in EntryPaths}] :
                    \A p \in EntryPaths : f[p] \in Entries(p)}
    /\ tree0 = tree
    /\ scanned = FALSE
    /\ files = <<>>
    /\ idx = 0
    /\ archived_count = 0
    /\ tmp = NoTmp
    /\ dest = (CASE argv.archive_tar = <<"out", "d">> -> DirDest
                 [] argv.archive_tar = <<"out", "old.tar">> -> OldDest
                 [] OTHER -> NoDest)
    /\ dest0 = dest
    /\ deleted = {}
    /\ firstManifest = <<>>
    /\ stale_tmps = 0
    /\ raised = "none"
    /\ envBudget = MaxEnv

\* main, lines 100-127: the argument checks, none of which touches the disk.
ArgsError ==
    \/ ~IsDir(argv.directory)
    \/ ~IsDir(archive_parent)
    \/ is_within(archive_path_abs, target_dir_abs)
    \/ ~StrptimeOk(argv.cutoff_timestamp)

MainArgs ==
    /\ tool = "archive" /\ pc = "args"
    /\ IF ArgsError THEN pc' = "done" /\ rc' = 2 ELSE pc' = "collect" /\ rc' = rc
    /\ UNCHANGED <<pruneVars, tool, argv, run, fsops, envBudget, archVars>>

\* main, lines 129-143: build the manifest once; stop when it is empty or in dry-run.
MainCollect ==
    /\ tool = "archive" /\ pc = "collect"
    /\ \E fl \in collect_files(tree, target_dir_abs, parse_cutoff(argv.cutoff_timestamp)) :
        /\ files' = fl
        /\ firstManifest' = IF run = 1 THEN fl ELSE firstManifest
        /\ IF fl = <<>> \/ argv.dry_run
             THEN pc' = "done" /\ rc' = 0
             ELSE pc' = "mkstemp" /\ rc' = rc
    /\ scanned' = TRUE
    /\ tree0' = tree
    /\ UNCHANGED <<pruneVars, tool, argv, run, fsops, envBudget, tree, idx, archived_count, tmp, dest,
                   dest0, deleted, stale_tmps, raised>>

\* MainMkstemp without dir=: the temp file is made in the system's temp directory.
MainMkstemp_SystemTmp ==
    /\ tool = "archive" /\ pc = "mkstemp"
    /\ tmp' = [exists |-> TRUE, size |-> 0, members |-> <<>>, dir |-> <<"tmp">>]
    /\ fsops' = fsops \cup {"mkstemp"}
    /\ idx' = 1
    /\ archived_count' = 0
    /\ pc' = "archive"
    /\ UNCHANGED <<pruneVars, tool, argv, rc, run, envBudget, tree, tree0, scanned, files, dest, dest0,
                   deleted, firstManifest, stale_tmps, raised>>

\* main, lines 145-149: mkstemp creates an empty temp file in archive_parent,
\* the directory of the destination.
MainMkstemp ==
    /\ tool = "archive" /\ pc = "mkstemp"
    /\ tmp' = [exists |-> TRUE, size |-> 0, members |-> <<>>, dir |-> Resolve(archive_parent)]
    /\ fsops' = fsops \cup {"mkstemp"}
    /\ idx' = 1
    /\ archived_count' = 0
    /\ pc' = "archive"
    /\ UNCHANGED <<pruneVars, tool, argv, rc, run, envBudget, tree, tree0, scanned, files, dest, dest0,
                   deleted, firstManifest, stale_tmps, raised>>

\* archive_files, one iteration of its loop (lines 63-66); the last one also
\* closes the tar file, which writes the end-of-archive blocks. tf.add raises
\* FileNotFoundError when the entry is gone; the with-block then closes the
\* file as it is, and the exception reaches main's handler.
archive_files ==
    /\ tool = "archive" /\ pc = "archive"
    /\ LET p == files[idx]
       IN  IF tree[p].kind = "none"
             THEN /\ pc' = "handler"
                  /\ raised' = "archive"
                  /\ UNCHANGED <<tmp, idx, archived_count>>
             ELSE /\ tmp' = [exists |-> TRUE,
                             size |-> tmp.size + 1 + (IF idx = Len(files) THEN 1 ELSE 0),
                             members |-> Append(tmp.members, RelativeTo(p, target_dir_abs)),
                             dir |-> tmp.dir]
                  /\ archived_count' = archived_count + 1
                  /\ idx' = idx + 1
                  /\ pc' = IF idx = Len(files) THEN "verify_exists" ELSE "archive"
                  /\ UNCHANGED raised
    /\ fsops' = fsops \cup {"write"}
    /\ UNCHANGED <<pruneVars, tool, argv, rc, run, envBudget, tree, tree0, scanned, files, dest, dest0,
                   deleted, firstManifest, stale_tmps>>

\* main, lines 155-157: the temp archive must exist and be non-empty.
MainVerifyExists ==
    /\ tool = "archive" /\ pc = "verify_exists"
    /\ IF ~tmp.exists \/ tmp.size = 0
         THEN pc' = "handler" /\ raised' = "verify_exists"
         ELSE pc' = "verify_count" /\ raised' = raised
    /\ UNCHANGED <<pruneVars, tool, argv, rc, run, fsops, envBudget, tree, tree0, scanned, files, idx,
                   archived_count, tmp, dest, dest0, deleted, firstManifest,
                   stale_tmps>>

\* verify_archive_count: the members tarfile reads back; -1 when tarfile.open
\* raises (no file, or an empty file).
verify_archive_count(t) == IF ~t.exists \/ t.size = 0 THEN -1 ELSE Len(t.members)

\* MainVerifyCount without the comparison of the counts.
MainVerifyCount_NoCheck ==
    /\ tool = "archive" /\ pc = "verify_count"
    /\ IF verify_archive_count(tmp) = -1
         THEN pc' = "handler" /\ raised' = "verify_count"
         ELSE pc' = "publish" /\ raised' = raised
    /\ UNCHANGED <<pruneVars, tool, argv, rc, run, fsops, envBudget, tree, tree0, scanned, files,
                   idx, archived_count, tmp, dest, dest0, deleted, firstManifest, stale_tmps>>

\* main, lines 159-164: the count read back must equal the manifest length and
\* the writer's count.
MainVerifyCount ==
    /\ tool = "archive" /\ pc = "verify_count"
    /\ LET verified_count == verify_archive_count(tmp)
       IN  IF verified_count = -1 \/ verified_count # Len(files) \/ verified_count # archived_count
             THEN pc' = "handler" /\ raised' = "verify_count"
             ELSE pc' = "publish" /\ raised' = raised
    /\ UNCHANGED <<pruneVars, tool, argv, rc, run, fsops, envBudget, tree, tree0, scanned, files, idx,
                   archived_count, tmp, dest, dest0, deleted, firstManifest,
                   stale_tmps>>

\* main, lines 166-167: tmp_path.replace(archive_path_abs), one rename. It raises
\* when the destination is a directory.
MainPublish ==
    /\ tool = "archive" /\ pc = "publish"
    /\ IF dest.state = "dir" \/ ~tmp.exists
         THEN /\ pc' = "handler"
              /\ raised' = "publish"
              /\ UNCHANGED <<tmp, dest, fsops, idx>>
         ELSE /\ dest' = [state |-> "archive", members |-> tmp.members]
              /\ tmp' = NoTmp
              /\ fsops' = fsops \cup {"replace"}
              /\ idx' = 1
              /\ pc' = "delete"
              /\ UNCHANGED raised
    /\ UNCHANGED <<pruneVars, tool, argv, rc, run, envBudget, tree, tree0, scanned, files, archived_count,
                   dest0, deleted, firstManifest, stale_tmps>>

\* delete_files without the except clause: a missing file raises.
delete_files_strict ==
    /\ tool = "archive" /\ pc = "delete" /\ idx <= Len(files)
    /\ LET p == files[idx]
       IN  IF tree[p].kind = "none"
             THEN /\ pc' = "handler"
                  /\ raised' = "delete"
                  /\ UNCHANGED <<tree, deleted, fsops, idx>>
             ELSE /\ tree' = [tree EXCEPT ![p] = NoEntry]
                  /\ deleted' = deleted \cup {p}
                  /\ fsops' = fsops \cup {"unlink"}
                  /\ idx' = idx + 1
                  /\ UNCHANGED <<pc, raised>>
    /\ UNCHANGED <<pruneVars, tool, argv, rc, run, envBudget, tree0, scanned, files, archived_count, tmp,
                   dest, dest0, firstManifest, stale_tmps>>

\* delete_files that scans the target again and unlinks what it finds.
delete_files_rescan ==
    /\ tool = "archive" /\ pc = "delete" /\ idx <= Len(files)
    /\ LET cutoff == parse_cutoff(argv.cutoff_timestamp)
           found == Selected(tree, target_dir_abs, cutoff) \cup
                    Selected(tree, target_dir_abs \o <<"sub">>, cutoff)
       IN  /\ tree' = [p \in EntryPaths |-> IF p \in found THEN NoEntry ELSE tree[p]]
           /\ deleted' = deleted \cup found
    /\ fsops' = fsops \cup {"unlink"}
    /\ idx' = Len(files) + 1
    /\ UNCHANGED <<pruneVars, tool, argv, pc, rc, run, envBudget, tree0, scanned, files, archived_count,
                   tmp, dest, dest0, firstManifest, stale_tmps, raised>>

\* delete_files, one iteration of its loop (lines 76-81). FileNotFoundError is
\* ignored; any other OSError of unlink (permission denied, read-only
\* filesystem) propagates to main's handler.
delete_files ==
    /\ tool = "archive" /\ pc = "delete" /\ idx <= Len(files)
    /\ LET p == files[idx]
       IN  IF tree[p].kind = "none"
             THEN /\ idx' = idx + 1
                  /\ UNCHANGED <<tree, deleted, fsops, pc, raised>>
             ELSE \/ /\ pc' = "handler"
                     /\ raised' = "delete"
                     /\ UNCHANGED <<tree, deleted, fsops, idx>>
                  \/ /\ tree' = [tree EXCEPT ![p] = NoEntry]
                     /\ deleted' = deleted \cup {p}
                     /\ fsops' = fsops \cup {"unlink"}
                     /\ idx' = idx + 1
                     /\ UNCHANGED <<pc, raised>>
    /\ UNCHANGED <<pruneVars, tool, argv, rc, run, envBudget, tree0, scanned, files, archived_count, tmp,
                   dest, dest0, firstManifest, stale_tmps>>

\* main, lines 172-173: every manifest file was handled; return 0.
MainFinish ==
    /\ tool = "archive" /\ pc = "delete" /\ idx > Len(files)
    /\ pc' = "done"
    /\ rc' = 0
    /\ UNCHANGED <<pruneVars, tool, argv, run, fsops, envBudget, archVars>>

\* MainHandler without the cleanup of the temp archive.
MainHandler_KeepTmp ==
    /\ tool = "archive" /\ pc = "handler"
    /\ pc' = "done"
    /\ rc' = 1
    /\ UNCHANGED <<pruneVars, tool, argv, run, fsops, envBudget, archVars>>

\* main, lines 175-184: report, remove the temp archive if it exists, return 1.
MainHandler ==
    /\ tool = "archive" /\ pc = "handler"
    /\ tmp' = NoTmp
    /\ fsops' = IF tmp.exists THEN fsops \cup {"unlink_tmp"} ELSE fsops
    /\ pc' = "done"
    /\ rc' = 1
    /\ UNCHANGED <<pruneVars, tool, argv, run, envBudget, tree, tree0, scanned, files, idx, archived_count,
                   dest, dest0, deleted, firstManifest, stale_tmps, raised>>

\* The process is terminated (signal, power loss) after the rename and before
\* delete_files has finished. A termination at any other step freezes a state
\* that is reachable anyway; this one is the termination that is followed by a
\* re-run.
Kill ==
    /\ tool = "archive" /\ pc = "delete"
    /\ pc' = "killed"
    /\ UNCHANGED <<pruneVars, tool, argv, rc, run, fsops, envBudget, tree, tree0, scanned, files, idx,
                   archived_count, tmp, dest, dest0, deleted, firstManifest,
                   stale_tmps, raised>>

\* The operator runs the tool again with the same arguments after a termination.
Rerun ==
    /\ tool = "archive" /\ pc = "killed" /\ run < MaxRuns
    /\ run' = run + 1
    /\ pc' = "args"
    /\ rc' = -1
    /\ fsops' = {}
    /\ scanned' = FALSE
    /\ files' = <<>>
    /\ idx' = 0
    /\ archived_count' = 0
    /\ stale_tmps' = stale_tmps + (IF tmp.exists THEN 1 ELSE 0)
    /\ tmp' = NoTmp
    /\ dest0' = dest
    /\ deleted' = {}
    /\ raised' = "none"
    /\ UNCHANGED <<pruneVars, tool, argv, envBudget, tree, tree0, dest, firstManifest>>

Running == pc \in {"mkstemp", "archive", "verify_exists", "verify_count", "publish", "delete"}

\* Another process removes an entry of the target after the scan.
EnvVanish ==
    /\ tool = "archive" /\ Running /\ envBudget > 0
    /\ \E p \in EntryPaths :
        /\ tree[p].kind # "none"
        /\ tree' = [tree EXCEPT ![p] = NoEntry]
    /\ envBudget' = envBudget - 1
    /\ UNCHANGED <<pruneVars, tool, argv, pc, rc, run, fsops, tree0, scanned, files, idx, archived_count,
                   tmp, dest, dest0, deleted, firstManifest, stale_tmps, raised>>

\* Another process creates a regular file in the target after the scan.
EnvAppear ==
    /\ tool = "archive" /\ Running /\ envBudget > 0
    /\ \E p \in EntryPaths, m \in 1..MaxMtime :
        /\ tree[p].kind = "none" /\ "reg" \in KindsAt(p) /\ m \in MtimesAt(p, "reg")
        /\ tree' = [tree EXCEPT ![p] = [kind |-> "reg", mtime |-> m]]
    /\ envBudget' = envBudget - 1
    /\ UNCHANGED <<pruneVars, tool, argv, pc, rc, run, fsops, tree0, scanned, files, idx, archived_count,
                   tmp, dest, dest0, deleted, firstManifest, stale_tmps, raised>>

\* The written temp archive is found truncated, emptied or missing when it is
\* verified (a short write, a full disk, a cleaner of temp files).
EnvTruncate ==
    /\ tool = "archive" /\ pc \in {"verify_exists", "verify_count"} /\ envBudget > 0
    /\ tmp.exists
    /\ \/ tmp' = NoTmp
       \/ tmp' = [exists |-> TRUE, size |-> 0, members |-> <<>>, dir |-> tmp.dir]
       \/ \E k \in 1..(Len(tmp.members) - 1) :
            tmp' = [exists |-> TRUE, size |-> k, members |-> SubSeq(tmp.members, 1, k), dir |-> tmp.dir]
    /\ tmp' # tmp
    /\ envBudget' = envBudget - 1
    /\ UNCHANGED <<pruneVars, tool, argv, pc, rc, run, fsops, tree, tree0, scanned, files, idx,
                   archived_count, dest, dest0, deleted, firstManifest,
                   stale_tmps, raised>>

NextArchive ==
    \/ MainArgs
    \/ MainCollect
    \/ MainMkstemp
    \/ archive_files
    \/ MainVerifyExists
    \/ MainVerifyCount
    \/ MainPublish
    \/ delete_files
    \/ MainFinish
    \/ MainHandler
    \/ Kill
    \/ Rerun
    \/ EnvVanish
    \/ EnvAppear
    \/ EnvTruncate

SpecArchive == InitArchive /\ [][NextArchive]_vars

\* ========================= delete_checkpoints.py and delete_wandb_dirs.py
\* The tree the pruning tools walk. /r is the root argument; /store lies
\* outside it. The symlinks the model may place, with their targets:
\*   /r/exp/back, /r/a/back    -> /r         (a link back to an ancestor)
\*   /r/exp/checkpoints/ls     -> /store/k1  (a checkpoint that is a symlink)
\*   /r/a/b/wandb              -> /store/k1  (a "wandb" that is a symlink)
\*   /r/lk/checkpoints         -> /vault     (a "checkpoints" that is a symlink)
Root == <<"r">>

LinkTo(p) ==
    CASE p = <<"r", "exp", "back">> -> <<"r">>
      [] p = <<"r", "a", "back">> -> <<"r">>
      [] p = <<"r", "exp", "checkpoints", "ls">> -> <<"store", "k1">>
      [] p = <<"r", "a", "b", "wandb">> -> <<"store", "k1">>
      [] p = <<"r", "lk", "checkpoints">> -> <<"vault">>
      [] OTHER -> p

ArchIdle ==
    /\ tree = <<>>
    /\ tree0 = <<>>
    /\ scanned = FALSE
    /\ files = <<>>
    /\ idx = 0
    /\ archived_count = 0
    /\ tmp = NoTmp
    /\ dest = NoDest
    /\ dest0 = NoDest
    /\ deleted = {}
    /\ firstManifest = <<>>
    /\ stale_tmps = 0
    /\ raised = "none"

\* Path.resolve() / the kernel's path walk in the pruned tree: the real path
\* of a logical path. Link targets are real paths.
RECURSIVE PResolveFrom(_, _, _)
PResolveFrom(ls, done, rest) ==
    IF rest = <<>> THEN done
    ELSE LET next == Append(done, Head(rest))
         IN  PResolveFrom(ls, IF next \in ls THEN LinkTo(next) ELSE next, Tail(rest))

PResolve(p) == PResolveFrom(links, <<>>, p)

\* is_dir() of a real-form path (only its last component may be a symlink).
PIsDir(ds, ls, x) == x \in ds \/ (x \in ls /\ LinkTo(x) \in ds)

\* The names os.scandir / iterdir list in the real directory d that are
\* directories or symlinks to directories.
DirNames(d) == {x[Len(x)] : x \in {y \in dirs \cup links : Parent(y) = d /\ PIsDir(dirs, links, y)}}

\* What is left of a set of paths once the tree below p is removed.
Without(S, p) == {x \in S : ~IsPrefix(p, x)}

RECURSIVE Reverse(_)
Reverse(s) == IF s = <<>> THEN <<>> ELSE Append(Reverse(Tail(s)), Head(s))

\* dirnames.remove that removes nothing.
KeepName(s, n) == s

RECURSIVE RemoveName(_, _)
RemoveName(s, n) ==
    IF s = <<>> THEN <<>>
    ELSE IF Head(s) = n THEN RemoveName(Tail(s), n) ELSE <<Head(s)>> \o RemoveName(Tail(s), n)

\* os.walk after the caller's loop body: the children it will descend into,
\* in listing order. A symlink is skipped unless followlinks is set.
RECURSIVE Descend(_, _, _, _)
Descend(top, real, names, ls) ==
    IF names = <<>> THEN <<>>
    ELSE LET new_path == Append(top, Head(names))
             more == Descend(top, real, Tail(names), ls)
         IN  IF (argv.follow_symlinks \/ Append(real, Head(names)) \notin ls) /\ Len(new_path) <= MaxDepth
               THEN <<new_path>> \o more
               ELSE more

\* walk_dirs without the test of the visited set.
walk_dirs_nocheck(follow_symlinks, seen, key) == [yield |-> TRUE, visited |-> seen \cup {key}]

\* walk_dirs of delete_checkpoints.py, after os.stat succeeded with identity
\* key: whether the directory is yielded, and the visited set afterwards.
walk_dirs(follow_symlinks, seen, key) ==
    IF follow_symlinks
      THEN IF key \in seen
             THEN [yield |-> FALSE, visited |-> seen]
             ELSE [yield |-> TRUE, visited |-> seen \cup {key}]
      ELSE [yield |-> TRUE, visited |-> seen]

\* walk_dirs of delete_wandb_dirs.py: the same test, the key built first.
wandb_walk_dirs(follow_symlinks, seen, key) ==
    LET k == key
    IN  IF follow_symlinks
          THEN IF k \in seen
                 THEN [yield |-> FALSE, visited |-> seen]
                 ELSE [yield |-> TRUE, visited |-> seen \cup {k}]
          ELSE [yield |-> TRUE, visited |-> seen]

\* main of both pruning tools: reject a root that is not a directory, else
\* start the walk at root.resolve().
PruneMain ==
    /\ tool \in {"ckpt", "wandb"} /\ pc = "args"
    /\ IF PResolve(argv.root) \notin dirs
         THEN pc' = "done" /\ rc' = 2 /\ stack' = stack
         ELSE pc' = "walk" /\ rc' = rc /\ stack' = <<PResolve(argv.root)>>
    /\ UNCHANGED <<tool, argv, run, fsops, envBudget, archVars, dirs, links, pfiles, dirs0, links0, dmtime, report,
                   visited, cur, yielded, count, removed, would>>

\* One step of the generator: os.walk takes the next directory and lists it
\* (a path that cannot be listed is skipped silently), then walk_dirs stats
\* it and yields it unless its key was seen. The stat fails only when another
\* process removed the directory after it was listed.
WalkNext ==
    /\ tool \in {"ckpt", "wandb"} /\ pc = "walk" /\ stack # <<>>
    /\ LET top == stack[Len(stack)]
           rest == SubSeq(stack, 1, Len(stack) - 1)
           real == PResolve(top)
       IN  /\ stack' = rest
           /\ IF real \notin dirs
                THEN UNCHANGED <<dirs, links, pfiles, visited, cur, yielded, pc, envBudget>>
                ELSE \/ \E names \in Perms(DirNames(real)) :
                          LET r == IF tool = "ckpt"
                                     THEN walk_dirs(argv.follow_symlinks, visited, real)
                                     ELSE wandb_walk_dirs(argv.follow_symlinks, visited, real)
                          IN  /\ visited' = r.visited
                              /\ IF r.yield
                                   THEN /\ cur' = [path |-> top, dirnames |-> names]
                                        /\ yielded' = Append(yielded, [path |-> top, key |-> real])
                                        /\ pc' = "body"
                                   ELSE UNCHANGED <<cur, yielded, pc>>
                              /\ UNCHANGED <<dirs, links, pfiles, envBudget>>
                     \/ /\ envBudget > 0 /\ real # Root
                        /\ envBudget' = envBudget - 1
                        /\ dirs' = Without(dirs, real)
                        /\ links' = Without(links, real)
                        /\ pfiles' = Without(pfiles, real)
                        /\ UNCHANGED <<visited, cur, yielded, pc>>
    /\ UNCHANGED <<tool, argv, rc, run, fsops, archVars, dirs0, links0, dmtime, report, count, removed, would>>

\* st_mtime of p.stat(), which follows a symlink.
MtimeOf(ls, p) == dmtime[IF p \in ls THEN LinkTo(p) ELSE p]

\* newest_by_mtime with min() for max().
oldest_by_mtime(subdirs) ==
    subdirs[CHOOSE i \in 1..Len(subdirs) :
               /\ \A j \in 1..Len(subdirs) : MtimeOf(links, subdirs[j]) >= MtimeOf(links, subdirs[i])
               /\ \A j \in 1..(i - 1) : MtimeOf(links, subdirs[j]) > MtimeOf(links, subdirs[i])]

\* newest_by_mtime: max() returns the first of the largest in list order.
newest_by_mtime(subdirs) ==
    subdirs[CHOOSE i \in 1..Len(subdirs) :
               /\ \A j \in 1..Len(subdirs) : MtimeOf(links, subdirs[j]) <= MtimeOf(links, subdirs[i])
               /\ \A j \in 1..(i - 1) : MtimeOf(links, subdirs[j]) < MtimeOf(links, subdirs[i])]

\* shutil.rmtree(p, ignore_errors=False) on the state st: it raises OSError on
\* a symlink, and otherwise removes the whole tree below p.
rmtree(st, p) ==
    IF p \in st.links
      THEN [st EXCEPT !.failed = TRUE]
      ELSE [st EXCEPT !.dirs = Without(@, p), !.links = Without(@, p), !.pfiles = Without(@, p),
                      !.removed = @ \cup {p}, !.count = @ + 1]

\* prune_loop that deletes in dry-run mode too.
RECURSIVE prune_loop_nodry(_, _, _)
prune_loop_nodry(subdirs, keep, st) ==
    IF subdirs = <<>> \/ st.failed THEN st
    ELSE IF Head(subdirs) = keep THEN prune_loop_nodry(Tail(subdirs), keep, st)
    ELSE prune_loop_nodry(Tail(subdirs), keep, rmtree(st, Head(subdirs)))

\* prune_checkpoints, lines 60-68: the loop over subdirs; it stops at the
\* first rmtree that raises.
RECURSIVE prune_loop(_, _, _)
prune_loop(subdirs, keep, st) ==
    IF subdirs = <<>> \/ st.failed THEN st
    ELSE LET p == Head(subdirs)
         IN  IF p = keep THEN prune_loop(Tail(subdirs), keep, st)
             ELSE IF argv.dry_run
               THEN prune_loop(Tail(subdirs), keep,
                               [st EXCEPT !.would = @ \cup {p}, !.count = @ + 1])
               ELSE prune_loop(Tail(subdirs), keep, rmtree(st, p))

FsState == [dirs |-> dirs, links |-> links, pfiles |-> pfiles, removed |-> removed,
            would |-> would, count |-> count, failed |-> FALSE]

\* EndBody that goes on with the walk after an exception.
EndBody_NoAbort(st, names) ==
    /\ dirs' = st.dirs
    /\ links' = st.links
    /\ pfiles' = st.pfiles
    /\ removed' = st.removed
    /\ would' = st.would
    /\ count' = st.count
    /\ fsops' = IF st.removed # removed THEN fsops \cup {"rmtree"} ELSE fsops
    /\ cur' = NoCur
    /\ pc' = "walk"
    /\ rc' = rc
    /\ stack' = stack \o Reverse(Descend(cur.path, PResolve(cur.path), names, st.links))

\* The end of one iteration of the caller's loop: the state st is written
\* back, and os.walk descends into the names left in dirnames; an exception
\* leaves the function instead (the process ends with a traceback, status 1).
EndBody(st, names) ==
    /\ dirs' = st.dirs
    /\ links' = st.links
    /\ pfiles' = st.pfiles
    /\ removed' = st.removed
    /\ would' = st.would
    /\ count' = st.count
    /\ fsops' = IF st.removed # removed THEN fsops \cup {"rmtree"} ELSE fsops
    /\ cur' = NoCur
    /\ IF st.failed
         THEN pc' = "aborted" /\ rc' = 1 /\ stack' = stack
         ELSE /\ pc' = "walk"
              /\ rc' = rc
              /\ stack' = stack \o Reverse(Descend(cur.path, PResolve(cur.path), names, st.links))

\* prune_checkpoints, lines 42-71: the loop body for one yielded directory.
prune_checkpoints ==
    /\ tool = "ckpt" /\ pc = "body"
    /\ LET ckpt_dir == Append(PResolve(cur.path), "checkpoints")
           ckpt_real == IF ckpt_dir \in links THEN LinkTo(ckpt_dir) ELSE ckpt_dir
       IN  IF "checkpoints" \notin SeqToSet(cur.dirnames)
             THEN EndBody(FsState, cur.dirnames)
           ELSE IF ~PIsDir(dirs, links, ckpt_dir)
             THEN EndBody(FsState, cur.dirnames)
           ELSE \E subdirs \in Perms({Append(ckpt_real, n) : n \in DirNames(ckpt_real)}) :
                  IF Len(subdirs) <= 1
                    THEN EndBody(FsState, RemoveName(cur.dirnames, "checkpoints"))
                    ELSE EndBody(prune_loop(subdirs, newest_by_mtime(subdirs), FsState),
                                 RemoveName(cur.dirnames, "checkpoints"))
    /\ UNCHANGED <<tool, argv, run, envBudget, archVars, dirs0, links0, dmtime, report, visited, yielded>>

\* wandb_loop that counts and never deletes.
RECURSIVE wandb_loop_count_only(_, _)
wandb_loop_count_only(targets, st) ==
    IF targets = <<>> THEN st
    ELSE wandb_loop_count_only(Tail(targets), [st EXCEPT !.count = @ + 1])

\* delete_wandb_dirs, lines 45-52: the loop over to_delete.
RECURSIVE wandb_loop(_, _)
wandb_loop(targets, st) ==
    IF targets = <<>> \/ st.failed THEN st
    ELSE IF argv.dry_run
      THEN wandb_loop(Tail(targets), [st EXCEPT !.would = @ \cup {Head(targets)}, !.count = @ + 1])
      ELSE wandb_loop(Tail(targets), rmtree(st, Head(targets)))

RECURSIVE OnlyName(_, _)
OnlyName(s, n) ==
    IF s = <<>> THEN <<>>
    ELSE IF Head(s) = n THEN <<n>> \o OnlyName(Tail(s), n) ELSE OnlyName(Tail(s), n)

\* delete_wandb_dirs, lines 39-52: the loop body for one yielded directory.
delete_wandb_dirs ==
    /\ tool = "wandb" /\ pc = "body"
    /\ LET to_delete == OnlyName(cur.dirnames, "wandb")
           real == PResolve(cur.path)
           targets == [i \in 1..Len(to_delete) |-> Append(real, to_delete[i])]
       IN  EndBody(wandb_loop(targets, FsState), RemoveName(cur.dirnames, "wandb"))
    /\ UNCHANGED <<tool, argv, run, envBudget, archVars, dirs0, links0, dmtime, report, visited, yielded>>

\* The walk is exhausted: the pruning function returns its count and main
\* prints the summary.
PruneReturn ==
    /\ tool \in {"ckpt", "wandb"} /\ pc = "walk" /\ stack = <<>>
    /\ pc' = "done"
    /\ rc' = 0
    /\ UNCHANGED <<tool, argv, run, fsops, envBudget, archVars, pruneVars>>

\* Another process replaces the "checkpoints" directory by a regular file
\* after os.walk listed it and before the loop body looks at it.
EnvStale ==
    /\ tool = "ckpt" /\ pc = "body" /\ envBudget > 0
    /\ LET ckpt_dir == Append(PResolve(cur.path), "checkpoints")
       IN  /\ ckpt_dir \in dirs
           /\ "checkpoints" \in SeqToSet(cur.dirnames)
           /\ dirs' = Without(dirs, ckpt_dir)
           /\ links' = Without(links, ckpt_dir)
           /\ pfiles' = Without(pfiles, ckpt_dir) \cup {ckpt_dir}
    /\ envBudget' = envBudget - 1
    /\ UNCHANGED <<tool, argv, pc, rc, run, fsops, archVars, dirs0, links0, dmtime, report, stack, visited, cur,
                   yielded, count, removed, would>>

SubdirNames == <<"s1", "s2", "s3", "s4">>
CkptDir == <<"r", "exp", "checkpoints">>
TopCkptDir == <<"r", "checkpoints">>
StoreDir == <<"store", "k1">>
LinkedCkpt == <<"r", "lk", "checkpoints">>
Vault == <<"vault">>

PruneArgs == [root : {<<"r">>, <<"nodir">>}, dry_run : BOOLEAN, follow_symlinks : BOOLEAN]

PruneStart ==
    /\ argv \in PruneArgs
    /\ pc = "args"
    /\ rc = -1
    /\ run = 1
    /\ fsops = {}
    /\ envBudget = MaxEnv
    /\ ArchIdle
    /\ report = NoReport
    /\ pfiles = {}
    /\ stack = <<>>
    /\ visited = {}
    /\ cur = NoCur
    /\ yielded = <<>>
    /\ count = 0
    /\ removed = {}
    /\ would = {}

\* /r/checkpoints holds t1 (mtime 1) and t2 (mtime 2); /r/exp/checkpoints holds
\* n subdirectories with any mtimes (s1 has a subdirectory of its own), and
\* possibly the symlink ls; /r/exp/back may link back to /r; /r/lk/checkpoints
\* may link to /vault, which holds v1 (mtime 1) and v2 (mtime 2). The subdirectories
\* are listed in every order, so their mtimes are taken in ascending order of
\* the names.
InitCkpt ==
    /\ tool = "ckpt"
    /\ PruneStart
    /\ \E n \in 0..MaxSubdirs, back \in BOOLEAN, ls \in 0..MaxMtime, lk \in BOOLEAN :
        \E mt \in [{Append(CkptDir, SubdirNames[i]) : i \in 1..n} -> 1..MaxMtime] :
          /\ \A i \in 1..(n - 1) :
                mt[Append(CkptDir, SubdirNames[i])] <= mt[Append(CkptDir, SubdirNames[i + 1])]
          /\ dirs = {<<>>, Root, <<"r", "exp">>, CkptDir, TopCkptDir, Append(TopCkptDir, "t1"),
                     Append(TopCkptDir, "t2"), <<"store">>, StoreDir,
                     <<"r", "lk">>, Vault, Append(Vault, "v1"), Append(Vault, "v2")}
                    \cup DOMAIN mt
                    \cup (IF n >= 1 THEN {CkptDir \o <<"s1", "deep">>} ELSE {})
          /\ links = (IF back THEN {<<"r", "exp", "back">>} ELSE {})
                     \cup (IF ls > 0 THEN {Append(CkptDir, "ls")} ELSE {})
                     \cup (IF lk THEN {LinkedCkpt} ELSE {})
          /\ dmtime = [p \in DOMAIN mt \cup {Append(TopCkptDir, "t1"), Append(TopCkptDir, "t2"), StoreDir,
                                             Append(Vault, "v1"), Append(Vault, "v2")} |->
                         IF p \in DOMAIN mt THEN mt[p]
                         ELSE IF p = StoreDir THEN (IF ls > 0 THEN ls ELSE 1)
                         ELSE IF p \in {Append(TopCkptDir, "t1"), Append(Vault, "v1")} THEN 1 ELSE 2]
    /\ dirs0 = dirs
    /\ links0 = links

NextCkpt ==
    \/ PruneMain
    \/ WalkNext
    \/ prune_checkpoints
    \/ PruneReturn
    \/ EnvStale

SpecCkpt == InitCkpt /\ [][NextCkpt]_vars

\* /r/wandb, /r/a/wandb: absent, a directory, or a directory holding another
\* "wandb"; /r/a/b/wandb: absent, a directory, or a symlink to /store/k1;
\* /r/a/b/z/wandb: absent or a directory; /r/a/back may link back to /r.
InitWandb ==
    /\ tool = "wandb"
    /\ PruneStart
    /\ dmtime = <<>>
    /\ \E wTop \in {"none", "dir", "nested"}, wA \in {"none", "dir", "nested"},
          wB \in {"none", "dir", "link"}, wZ \in BOOLEAN, back \in BOOLEAN :
          /\ dirs = {<<>>, Root, <<"r", "a">>, <<"r", "a", "b">>, <<"store">>, StoreDir}
                    \cup (IF wTop # "none" THEN {<<"r", "wandb">>, <<"r", "wandb", "run">>} ELSE {})
                    \cup (IF wTop = "nested" THEN {<<"r", "wandb", "wandb">>} ELSE {})
                    \cup (IF wA # "none" THEN {<<"r", "a", "wandb">>} ELSE {})
                    \cup (IF wA = "nested" THEN {<<"r", "a", "wandb", "wandb">>} ELSE {})
                    \cup (IF wB = "dir" THEN {<<"r", "a", "b", "wandb">>} ELSE {})
                    \cup (IF wZ THEN {<<"r", "a", "b", "z">>, <<"r", "a", "b", "z", "wandb">>} ELSE {})
          /\ links = (IF back THEN {<<"r", "a", "back">>} ELSE {})
                     \cup (IF wB = "link" THEN {<<"r", "a", "b", "wandb">>} ELSE {})
    /\ dirs0 = dirs
    /\ links0 = links

NextWandb ==
    \/ PruneMain
    \/ WalkNext
    \/ delete_wandb_dirs
    \/ PruneReturn

SpecWandb == InitWandb /\ [][NextWandb]_vars

\* The operator looks at the report of a dry run that returned and runs the
\* same command again with --execute.
ExecuteAfterDryRun ==
    /\ tool \in {"ckpt", "wandb"} /\ pc = "done" /\ rc = 0 /\ argv.dry_run /\ run = 1
    /\ report' = [would |-> would, count |-> count]
    /\ argv' = [argv EXCEPT !.dry_run = FALSE]
    /\ run' = 2
    /\ pc' = "args"
    /\ rc' = -1
    /\ would' = {}
    /\ count' = 0
    /\ visited' = {}
    /\ yielded' = <<>>
    /\ UNCHANGED <<tool, fsops, envBudget, archVars, dirs, links, pfiles, dirs0, links0, dmtime, stack,
                   cur, removed>>

\* Both pruning tools (they share the walker).
InitPrune == InitCkpt \/ InitWandb

NextPrune ==
    \/ PruneMain
    \/ WalkNext
    \/ prune_checkpoints
    \/ delete_wandb_dirs
    \/ PruneReturn
    \/ EnvStale

SpecPrune == InitPrune /\ [][NextPrune]_vars

\* A run of a pruning tool, and the execute run that follows a dry run.
NextDryRunFirst == NextPrune \/ ExecuteAfterDryRun

SpecDryRunFirst == InitPrune /\ [][NextDryRunFirst]_vars

Backlinks == {<<"r", "exp", "back">>, <<"r", "a", "back">>}

\* The runs of the pruning tools that follow symlinks through a tree with a
\* link back to an ancestor. The mtimes of real subdirectories play no part in
\* the walk: the i-th subdirectory has mtime i.
InitWalk ==
    /\ InitPrune
    /\ argv.follow_symlinks
    /\ argv.root = Root
    /\ links \cap Backlinks # {}
    /\ \A i \in 1..MaxSubdirs :
          Append(CkptDir, SubdirNames[i]) \in dirs => dmtime[Append(CkptDir, SubdirNames[i])] = i

\* The generator and the loop bodies run to the end once started: a script is
\* a sequential program that is never suspended forever.
FairSpecWalk == InitWalk /\ [][NextPrune]_vars /\ WF_vars(NextPrune)

\* The whole repository: one of the three scripts is run.
Init == InitArchive \/ InitCkpt \/ InitWandb

Next == NextArchive \/ NextPrune \/ ExecuteAfterDryRun

Spec == Init /\ [][Next]_vars

\* ================================================================ claims
cutoff_epoch == parse_cutoff(argv.cutoff_timestamp)

Members(d) == SeqToSet(d.members)

\* The destination holds the complete archive of the manifest: one member per
\* manifest file, named by its path relative to the target.
Published ==
    /\ dest.state = "archive"
    /\ Len(dest.members) = Len(files)
    /\ \A i \in 1..Len(files) : dest.members[i] = RelativeTo(files[i], target_dir_abs)

\* C1: in every state of a run of the archive tool, if a manifest file has
\* been deleted by the tool, then the verified temp archive has been renamed
\* to the destination and holds one member for every manifest file.
C1_DeleteOnlyAfterPublish ==
    (tool = "archive" /\ deleted # {}) =>
        /\ Published
        /\ "replace" \in fsops
        /\ ~tmp.exists
        /\ deleted \subseteq SeqToSet(files)

\* a run terminated after some, not all, of the manifest was deleted
C1_Witness ==
    /\ tool = "archive" /\ pc = "killed" /\ run = 1
    /\ deleted # {} /\ Cardinality(deleted) < Len(files)

\* C2: when the archive write raises, or the temp archive is missing or
\* empty, or the counts differ, the run ends with exit code 1, no manifest file
\* deleted, the temp archive removed and the destination as it was; the
\* target differs from the scanned tree only by what other processes did.
C2_FailClosedBeforePublish ==
    (tool = "archive" /\ pc = "done" /\ raised \in {"archive", "verify_exists", "verify_count"}) =>
        /\ rc = 1
        /\ deleted = {}
        /\ ~tmp.exists
        /\ dest = dest0
        /\ fsops \cap {"replace", "unlink"} = {}
        /\ Cardinality({p \in EntryPaths : tree[p] # tree0[p]}) <= MaxEnv - envBudget

\* a count mismatch was detected on a truncated archive and the run has ended
C2_Witness ==
    /\ tool = "archive" /\ pc = "done" /\ raised = "verify_count" /\ rc = 1
    /\ Len(files) >= 2 /\ dest0.state = "old"

\* The regular files that lie in the target tree itself when it is scanned.
OldRegular == {p \in EntryPaths : /\ IsPrefix(target_dir_abs, Resolve(Parent(p)))
                                  /\ tree0[p].kind = "reg"
                                  /\ tree0[p].mtime <= cutoff_epoch}

Newer == {p \in EntryPaths : tree0[p].kind # "none" /\ tree0[p].mtime > cutoff_epoch}

\* C3: a successful execute run on a tree with N regular files of mtime <=
\* cutoff and M newer files removes exactly the N, leaves the M, and publishes
\* an archive of exactly N members named by the relative paths of the N.
C3_RoundTrip ==
    (tool = "archive" /\ pc = "done" /\ rc = 0 /\ ~argv.dry_run /\ run = 1 /\ envBudget = MaxEnv) =>
        /\ deleted = OldRegular
        /\ \A p \in Newer : tree[p] = tree0[p]
        /\ OldRegular # {} => /\ dest.state = "archive"
                              /\ Len(dest.members) = Cardinality(OldRegular)
                              /\ Members(dest) = {RelativeTo(p, target_dir_abs) : p \in OldRegular}
        /\ OldRegular = {} => dest = dest0

\* C4: after a run that was terminated between the rename and the end of the
\* deletion, a second run with the same arguments leaves every file of the
\* first manifest either in the target or in the archive at the destination.
C4_RerunKeepsEveryFile ==
    (tool = "archive" /\ run = 2 /\ pc = "done" /\ envBudget = MaxEnv) =>
        \A i \in 1..Len(firstManifest) :
            \/ tree[firstManifest[i]].kind # "none"
            \/ /\ dest.state = "archive"
               /\ RelativeTo(firstManifest[i], target_dir_abs) \in Members(dest)

\* C5: in dry-run mode none of the three tools changes the filesystem: no
\* temp file, no archive, no unlink, no rmtree; the trees differ from the
\* initial ones only by what other processes did.
C5_DryRunChangesNothing ==
    argv.dry_run =>
        /\ fsops = {}
        /\ deleted = {} /\ removed = {}
        /\ ~tmp.exists /\ dest = dest0
        /\ envBudget = MaxEnv => (tree = tree0 /\ dirs = dirs0 /\ links = links0 /\ pfiles = {})

\* a dry run of the checkpoint pruner that reported directories to delete
C5_Witness ==
    /\ tool = "ckpt" /\ argv.dry_run /\ pc = "done" /\ Cardinality(would) >= 2

\* The immediate subdirectories (directories and symlinks to directories) of d.
Subdirs(ds, ls, d) == {x \in ds \cup ls : Parent(x) = d /\ PIsDir(ds, ls, x)}

Mtime0(x) == dmtime[IF x \in links0 THEN LinkTo(x) ELSE x]

\* The directories the pruner takes for "checkpoints" directories: the two
\* below the root, and the one behind the symlink /r/lk/checkpoints.
CkptDirs == {CkptDir, TopCkptDir} \cup (IF LinkedCkpt \in links0 THEN {Vault} ELSE {})

C7_NeverInsideCheckpoints ==
    tool = "ckpt" =>
        /\ \A i, j \in 1..Len(yielded) :
              ~IsPrefix(Append(yielded[i].path, "checkpoints"), yielded[j].path)
        /\ \A d \in CkptDirs :
              (Cardinality(Subdirs(dirs0, links0, d)) <= 1 /\ envBudget = MaxEnv) =>
                  /\ {x \in dirs0 : IsPrefix(d, x)} \subseteq dirs
                  /\ {x \in links0 : IsPrefix(d, x)} \subseteq links

\* the walk has ended after "checkpoints" was found replaced by a file
C7_Witness ==
    /\ tool = "ckpt" /\ pc = "done" /\ CkptDir \in pfiles
    /\ \E i \in 1..Len(yielded) : yielded[i].path = <<"r", "exp">>

HasName(path, n) == \E i \in 1..Len(path) : path[i] = n

\* The outermost entries named "wandb" below the root when the run started.
OutermostWandb ==
    {x \in dirs0 \cup links0 : /\ IsPrefix(Root, x) /\ x[Len(x)] = "wandb"
                               /\ PIsDir(dirs0, links0, x)
                               /\ ~HasName(Parent(x), "wandb")}

YieldsOnce ==
    argv.follow_symlinks =>
        /\ \A i, j \in 1..Len(yielded) : i # j => yielded[i].key # yielded[j].key
        /\ \A i \in 1..Len(yielded) : \A b \in Backlinks : ~IsPrefix(b, yielded[i].path)
        /\ \A i \in 1..Len(stack) : \A b \in Backlinks : b # stack[i] => ~IsPrefix(b, stack[i])

\* C9: with symlink-following, the walk of a tree with a link back to an
\* ancestor ends, and yields each real directory at most once; a directory
\* reached again is not yielded and nothing below it is walked.
C9_WalkTerminatesYieldsOnce == [](YieldsOnce) /\ <>(pc \in {"done", "aborted"})

\* a walk that followed symlinks through a cycle has ended
C9_Witness ==
    /\ tool \in {"ckpt", "wandb"} /\ pc = "done" /\ rc = 0 /\ argv.follow_symlinks
    /\ links0 \cap Backlinks # {}
    /\ Len(yielded) >= 2

\* The command lines of the model that carry an argument error.
BadArguments ==
    \/ argv.directory = <<"nodir">>
    \/ argv.archive_tar \in {<<"nodir", "x.tar">>, <<"t", "x.tar">>, <<"t">>, <<"tin", "x.tar">>,
                              <<"out", "s.tar">>}
    \/ argv.cutoff_timestamp \in {<<2025, 13, 1, 0, 0, 0>>, <<2025, 12, 1>>}

\* C10: a run of the archive tool with an argument error never gets past the
\* argument checks: it exits with code 2, the target is never scanned and
\* nothing is created, replaced or deleted, in dry-run and in execute mode.
C10_ArgumentErrorsExit2 ==
    (tool = "archive" /\ BadArguments) =>
        /\ pc \in {"args", "done"}
        /\ pc = "done" => rc = 2
        /\ ~scanned
        /\ fsops = {} /\ ~tmp.exists /\ dest = dest0 /\ deleted = {} /\ tree = tree0

\* an execute run whose destination is a symlink into the target has exited
C10_Witness ==
    /\ tool = "archive" /\ pc = "done" /\ rc = 2 /\ ~argv.dry_run
    /\ argv.directory = <<"tl">> /\ argv.archive_tar = <<"out", "s.tar">>
    /\ StrptimeOk(argv.cutoff_timestamp)

\* The entries os.walk lists as file names: those in the target and in its
\* real subdirectories (not the ones behind a symlink to a directory).
Walked == {p \in EntryPaths : IsPrefix(target_dir_abs, Resolve(Parent(p)))}

\* No file under the target is as old as the cutoff; a symlink to a regular
\* file counts as a file here, with the mtime of the link.
NoOldFile ==
    \A p \in Walked : tree0[p].kind \in {"reg", "lnkfile"} => tree0[p].mtime > cutoff_epoch

C12_ManifestSymlinks ==
    (tool = "archive" /\ scanned) =>
        /\ \A p \in EntryPaths :
              (tree0[p].kind = "reg" /\ tree0[p].mtime <= cutoff_epoch) => p \in SeqToSet(files)
        /\ \A i \in 1..Len(files) : tree0[files[i]].kind = "reg"
        /\ \A p \in deleted : tree0[p].kind = "reg"

\* The two halves of C12, each on its own.
C12_IncludesBehindDirSymlink ==
    (tool = "archive" /\ scanned) =>
        \A p \in EntryPaths :
            (tree0[p].kind = "reg" /\ tree0[p].mtime <= cutoff_epoch) => p \in SeqToSet(files)

C12_ExcludesSymlinks ==
    (tool = "archive" /\ scanned) =>
        /\ \A i \in 1..Len(files) : tree0[files[i]].kind = "reg"
        /\ \A p \in deleted : tree0[p].kind = "reg"

\* No "checkpoints" directory holds two subdirectories of the same mtime
\* (which of the two is kept then depends on the order of the listing).
NoTies ==
    tool = "ckpt" =>
        \A d \in CkptDirs : \A x, y \in Subdirs(dirs0, links0, d) : x # y => Mtime0(x) # Mtime0(y)

\* C13: for both pruning tools, with and without symlink-following, an
\* execute run started from the tree a dry run was made on returns, deletes
\* exactly the paths the dry run reported as would-delete, and returns the
\* count the dry run returned.
C13_DryRunPredictsExecute ==
    (tool \in {"ckpt", "wandb"} /\ run = 2 /\ pc \in {"done", "aborted"} /\ envBudget = MaxEnv /\ NoTies) =>
        /\ pc = "done" /\ rc = 0
        /\ removed = report.would
        /\ count = report.count

\* C13 on the trees where nothing listed as a directory is a symlink.
C13_WithoutSymlinkedDirs ==
    (/\ tool \in {"ckpt", "wandb"} /\ run = 2 /\ pc \in {"done", "aborted"} /\ envBudget = MaxEnv /\ NoTies
     /\ links0 \subseteq Backlinks) =>
        /\ pc = "done" /\ rc = 0
        /\ removed = report.would
        /\ count = report.count

\* The manifest is the list the scan produced; the archive written so far,
\* the archive published, the counts compared and the files unlinked are all
\* taken from it, and an entry that was not there at the scan is in none.
ManifestIsTheScan ==
    tool = "archive" =>
        /\ ~scanned => (files = <<>> /\ fsops = {} /\ deleted = {} /\ ~tmp.exists)
        /\ scanned => files \in collect_files(tree0, target_dir_abs, cutoff_epoch)
        /\ Len(tmp.members) <= Len(files)
        /\ \A i \in 1..Len(tmp.members) : tmp.members[i] = RelativeTo(files[i], target_dir_abs)
        /\ pc = "publish" => (verify_archive_count(tmp) = Len(files) /\ archived_count = Len(files))
        /\ "replace" \in fsops => Published
        /\ deleted \subseteq SeqToSet(files)
        /\ \A p \in EntryPaths :
              (scanned /\ tree0[p].kind = "none") =>
                  /\ p \notin deleted
                  /\ RelativeTo(p, target_dir_abs) \notin Members(tmp)
                  /\ "replace" \in fsops => RelativeTo(p, target_dir_abs) \notin Members(dest)

\* A step of a run that has scanned leaves the manifest as it is, and a step
\* of the tool (not of another process) leaves alone every entry that was not
\* there at the scan.
ManifestNeverChanges ==
    (tool = "archive" /\ scanned /\ scanned') =>
        /\ files' = files
        /\ envBudget' = envBudget =>
              \A p \in EntryPaths : tree0[p].kind = "none" => tree'[p] = tree[p]

\* C14: the manifest is built once, before the tool changes anything, and is
\* never changed in that run; what is archived, what the verified count is
\* compared with and what is deleted is that list, so a file that appears in
\* the target after the scan is neither archived nor deleted by the run.
C14_ManifestImmutable == []ManifestIsTheScan /\ [][ManifestNeverChanges]_vars

\* an execute run has exited with 0 although an old file appeared after the
\* scan; the file is still there
C14_Witness ==
    /\ tool = "archive" /\ pc = "done" /\ rc = 0 /\ ~argv.dry_run /\ deleted # {}
    /\ \E p \in Walked : /\ tree0[p].kind = "none"
                          /\ tree[p].kind = "reg" /\ tree[p].mtime <= cutoff_epoch

\* The manifest files the tool did not unlink itself.
NotUnlinked == SeqToSet(files) \ deleted

\* A run whose deletion step met no error other than a missing file has
\* exited with 0 after going through the whole manifest; when all that other
\* processes did was to remove manifest files, every manifest file is absent.
MissingFilesEndInSuccess ==
    (tool = "archive" /\ pc = "done" /\ "replace" \in fsops /\ raised = "none") =>
        /\ rc = 0
        /\ idx = Len(files) + 1
        /\ \A p \in deleted : tree[p].kind = "none" \/ envBudget < MaxEnv
        /\ Cardinality(NotUnlinked) <= MaxEnv - envBudget
        /\ Cardinality(NotUnlinked) = MaxEnv - envBudget =>
              \A i \in 1..Len(files) : tree[files[i]].kind = "none"

\* The step of delete_files on a manifest file that is missing: the loop goes
\* on to the next entry, nothing is raised.
MissingFileIsSkipped ==
    (/\ tool = "archive" /\ pc = "delete" /\ idx <= Len(files)
     /\ tree[files[idx]].kind = "none"
     /\ envBudget' = envBudget /\ pc' # "killed") =>
        /\ pc' = "delete" /\ idx' = idx + 1 /\ raised' = "none" /\ rc' = -1
        /\ tree' = tree /\ deleted' = deleted

\* C15: in the deletion step a manifest file that no longer exists counts as
\* done: the loop continues with the remaining manifest files, all of them
\* end up absent, and the run exits with code 0.
C15_MissingFileIsSuccess == []MissingFilesEndInSuccess /\ [][MissingFileIsSkipped]_vars

\* a run has exited with 0 after it found the first manifest file missing and
\* unlinked a later one
C15_Witness ==
    /\ tool = "archive" /\ pc = "done" /\ rc = 0 /\ "replace" \in fsops
    /\ Len(files) >= 2 /\ files[1] \notin deleted /\ files[2] \in deleted
    /\ \A i \in 1..Len(files) : tree[files[i]].kind = "none"

\* The loop body that is about to run will call rmtree on a symlink, which
\* raises: an entry named "wandb" that is a symlink, or a symlinked
\* subdirectory of "checkpoints" that is older than another one.
RemovalFails ==
    /\ tool \in {"ckpt", "wandb"} /\ pc = "body" /\ ~argv.dry_run
    /\ \/ /\ tool = "wandb"
          /\ "wandb" \in SeqToSet(cur.dirnames)
          /\ Append(PResolve(cur.path), "wandb") \in links
       \/ /\ tool = "ckpt"
          /\ "checkpoints" \in SeqToSet(cur.dirnames)
          /\ Append(PResolve(cur.path), "checkpoints") \in dirs
          /\ LET S == Subdirs(dirs, links, Append(PResolve(cur.path), "checkpoints"))
             IN  \E x \in S \cap links : \E y \in S : MtimeOf(links, y) > MtimeOf(links, x)

\* The same, a symlinked subdirectory that ties with another one included:
\* it is removed or kept according to the order of the listing.
RemovalMayFail ==
    \/ RemovalFails
    \/ /\ tool = "ckpt" /\ pc = "body" /\ ~argv.dry_run
       /\ "checkpoints" \in SeqToSet(cur.dirnames)
       /\ Append(PResolve(cur.path), "checkpoints") \in dirs
       /\ LET S == Subdirs(dirs, links, Append(PResolve(cur.path), "checkpoints"))
          IN  \E x \in S \cap links : \E y \in S \ {x} : MtimeOf(links, y) = MtimeOf(links, x)

\* After an abort: exit status 1, only removed directories were counted, and
\* the directories the walk had not reached are all there.
AbortedRunStopped ==
    (tool \in {"ckpt", "wandb"} /\ pc = "aborted") =>
        /\ rc = 1 /\ ~argv.dry_run
        /\ count = Cardinality(removed)
        /\ removed \subseteq dirs0 /\ removed \cap (dirs \cup links) = {}
        /\ \A x \in dirs0 \cup links0 :
              (envBudget = MaxEnv /\ \A r \in removed : ~IsPrefix(r, x)) => x \in dirs \cup links
        /\ \A i \in 1..Len(yielded) : ~IsPrefix(<<"r", "a", "b", "z">>, yielded[i].path)

\* The step of the loop body: it aborts when, and only when, a removal fails;
\* the failed directory stays and is not counted, the walk gets no further,
\* and an aborted run takes no step.
FailedRemovalAborts ==
    /\ pc # "aborted"
    /\ (RemovalFails /\ envBudget' = envBudget) =>
          /\ pc' = "aborted" /\ rc' = 1
          /\ links' = links
          /\ stack' = stack /\ yielded' = yielded
          /\ count' - count = Cardinality(removed' \ removed)
    /\ pc' = "aborted" => RemovalMayFail

\* C16: in execute mode of either pruning tool the first removal that fails
\* ends the run: the error leaves the pruning function (exit status 1), no
\* directory is visited or deleted afterwards, and the directory that could
\* not be removed is not counted.
C16_FirstFailureAborts == []AbortedRunStopped /\ [][FailedRemovalAborts]_vars

\* the wandb pruner has aborted at a symlink named "wandb" after it removed
\* one directory; a "wandb" directory further down is still there
C16_Witness ==
    /\ tool = "wandb" /\ pc = "aborted" /\ count = 1
    /\ <<"r", "a", "b", "wandb">> \in links
    /\ <<"r", "a", "b", "z", "wandb">> \in dirs

\* The destination holds what it held when the run began, or the archive this
\* run published, which is complete; a temp archive lies in the directory of
\* the destination.
DestinationOldOrComplete ==
    tool = "archive" =>
        /\ dest = dest0 \/ ("replace" \in fsops /\ Published)
        /\ "replace" \notin fsops => dest = dest0
        /\ tmp.exists => tmp.dir = Parent(archive_path_abs)

\* The destination changes in one step only: the rename of a temp archive
\* that holds every manifest file and was closed; the temp path is gone then.
SingleRename ==
    (tool = "archive" /\ dest' # dest) =>
        /\ pc = "publish" /\ pc' = "delete"
        /\ tmp.exists /\ tmp.dir = Parent(archive_path_abs)
        /\ Len(tmp.members) = Len(files) /\ tmp.size = Len(files) + 1
        /\ dest' = [state |-> "archive", members |-> tmp.members]
        /\ ~tmp'.exists
        /\ deleted = {} /\ tree' = tree

\* C17: throughout an execute run the file at the destination is what was
\* there before the run or the complete verified archive; partial content is
\* at the temp path only, which lies in the destination's directory, and the
\* destination is switched by one rename.
C17_DestinationNeverPartial == []DestinationOldOrComplete /\ [][SingleRename]_vars

\* the temp archive holds one of two members while the destination still
\* holds the old file
C17_Witness ==
    /\ tool = "archive" /\ pc = "archive" /\ ~argv.dry_run
    /\ Len(files) >= 2 /\ Len(tmp.members) = 1
    /\ dest0.state = "old" /\ dest = dest0

\* C18: whenever the archive tool exits with code 1, no manifest file has
\* been deleted and no archive has been published at the destination, also
\* when the rename or the deletion step raised.
C18_Exit1MeansNothingDone ==
    (tool = "archive" /\ pc = "done" /\ rc = 1) =>
        /\ deleted = {}
        /\ dest = dest0
        /\ "replace" \notin fsops

\* C18 for the runs in which the deletion step did not raise.
C18_UnlessDeletionRaised ==
    (tool = "archive" /\ pc = "done" /\ rc = 1 /\ raised # "delete") =>
        /\ deleted = {}
        /\ dest = dest0
        /\ "replace" \notin fsops

\* C19: without symlink-following the checkpoint pruner removes and counts
\* only directories that lie in the tree of the root; when a child named
\* "checkpoints" is a symlink to a directory, the subdirectories of the
\* link's target all stay.
C19_DeletesOnlyInsideRoot ==
    (tool = "ckpt" /\ ~argv.follow_symlinks) =>
        /\ \A x \in removed \cup would : IsPrefix(Root, x)
        /\ \A x \in dirs0 : (~IsPrefix(Root, x) /\ envBudget = MaxEnv) => x \in dirs
        /\ count = Cardinality({x \in removed \cup would : IsPrefix(Root, x)})

\* C19 on the trees where no child named "checkpoints" is a symlink.
C19_WithoutLinkedCheckpoints ==
    (tool = "ckpt" /\ ~argv.follow_symlinks /\ LinkedCkpt \notin links0) =>
        /\ \A x \in removed \cup would : IsPrefix(Root, x)
        /\ \A x \in dirs0 : (~IsPrefix(Root, x) /\ envBudget = MaxEnv) => x \in dirs
        /\ count = Cardinality({x \in removed \cup would : IsPrefix(Root, x)})

====
